---------------------------- MODULE Spec2Model ----------------------------
(***************************************************************************)
(* Model of the mini-app client of lobanovo-bot: the streaming frame       *)
(* reader (api/client.ts, apiStream), the chat store (store/chat.ts), the   *)
(* chat page (pages/Chat.tsx) that drives the store from the stream, the   *)
(* audit page (pages/Audit.tsx) and the auth store behind the gate of      *)
(* App.tsx (store/auth.ts, AuthGate).                                      *)
(*                                                                         *)
(* Text is a sequence of one-character strings.  JavaScript runs every     *)
(* synchronous segment to completion and drains the microtask queue before *)
(* the next task, so one action is one task: a UI event, or the arrival of *)
(* a network result together with everything the awaiting code does until  *)
(* it awaits the network again.                                            *)
(***************************************************************************)
EXTENDS Integers, Sequences, FiniteSets, TLC

\* ------------------------------------------------------------ bounds
MaxSends == 2       \* accepted chat submits in one behaviour
MaxPending == 1     \* chat history requests in flight at once
MaxReads == 2       \* chunks the response bodies deliver in one behaviour
MaxRates == 1       \* clicks on a feedback button in one behaviour
MaxPieces == 3      \* pieces of wire text a response body is made of
MaxClicks == 2      \* clicks on a feedback button when the ratings are followed
MaxHeld == 4        \* messages held when an older page may still be prepended
MaxAudits == 2      \* calls of handleAudit in one behaviour
MaxAuditReads == 2  \* chunks the audit responses deliver in one behaviour
MaxStore == 3       \* messages the store holds when its operations are taken alone
MaxContent == 2     \* characters of content a message gets from them
MaxLogins == 3      \* calls of authenticate when the session is followed

\* ------------------------------------------------------------ values
Undefined == 0 - 1  \* a field that is absent (JavaScript undefined)
NoRating == 0       \* rating absent or null
Sentinel == 0       \* the id finishStreaming gets on a failure
NL == "\n"
MinAuditLen == 50   \* the least length of a post handleAudit takes

Truthy(n) == n # Undefined /\ n # 0

\* "Ошибка" and "Произошла ошибка. Попробуй ещё раз.", each one symbol of text
Oshibka == <<"E1">>
Fallback == <<"E2">>
\* "Ошибка при анализе"
AuditOshibka == <<"E3">>

\* ------------------------------------------------------------ text
RECURSIVE TrimLeft(_)
TrimLeft(s) ==
    IF s # <<>> /\ Head(s) = " " THEN TrimLeft(Tail(s)) ELSE s

RECURSIVE TrimRight(_)
TrimRight(s) ==
    IF s # <<>> /\ s[Len(s)] = " " THEN TrimRight(SubSeq(s, 1, Len(s) - 1)) ELSE s

\* String.prototype.trim
Trim(s) == TrimRight(TrimLeft(s))

\* String.prototype.startsWith
StartsWith(s, p) == Len(s) >= Len(p) /\ SubSeq(s, 1, Len(p)) = p

\* String.prototype.slice(n)
Slice(s, n) == SubSeq(s, n + 1, Len(s))

\* String.prototype.split("\n"): k separators give k + 1 pieces
RECURSIVE Split(_)
Split(s) ==
    IF \E i \in 1..Len(s) : s[i] = NL
    THEN LET i == CHOOSE k \in 1..Len(s) :
                      s[k] = NL /\ \A j \in 1..(k - 1) : s[j] # NL
         IN  <<SubSeq(s, 1, i - 1)>> \o Split(SubSeq(s, i + 1, Len(s)))
    ELSE <<s>>

RECURSIVE Flatten(_)
Flatten(ss) == IF ss = <<>> THEN <<>> ELSE Head(ss) \o Flatten(Tail(ss))

\* ------------------------------------------------------------ frames
(* The JSON payloads of the wire are spelt compactly: "{" kind args "}",   *)
(* kind t (token), d (done) or e (error); the args of t and e are the      *)
(* characters of content, the args of d are the one or two decimal digits  *)
(* of message_id.  "{}"                                                    *)
(* is valid JSON that is no event.  Everything else fails to parse.  The   *)
(* letters P r i v e t stand for the Cyrillic ones of the word they spell. *)
ContentChars == {"x", "y", "!", "P", "r", "i", "v", "e", "t"}
DigitChars == {"1", "2", "3", "4"}
DigitVal(c) == CASE c = "1" -> 1 [] c = "2" -> 2 [] c = "3" -> 3 [] OTHER -> 4

Marker == <<"d", "a", "t", "a", ":", " ">>

\* whether JSON.parse(p) returns (TRUE) or throws (FALSE)
JSONValid(p) ==
    /\ Len(p) >= 2
    /\ p[1] = "{"
    /\ p[Len(p)] = "}"
    /\ \/ Len(p) = 2
       \/ /\ p[2] \in {"t", "e"}
          /\ \A i \in 3..(Len(p) - 1) : p[i] \in ContentChars
       \/ /\ p[2] = "d"
          /\ Len(p) <= 5
          /\ \A i \in 3..(Len(p) - 1) : p[i] \in DigitChars

\* the value JSON.parse(p) returns for a valid p
JSONParse(p) ==
    IF Len(p) = 2
    THEN [type |-> "none", content |-> <<>>, message_id |-> Undefined]
    ELSE IF p[2] = "t"
    THEN [type |-> "token", content |-> SubSeq(p, 3, Len(p) - 1),
          message_id |-> Undefined]
    ELSE IF p[2] = "e"
    THEN [type |-> "error", content |-> SubSeq(p, 3, Len(p) - 1),
          message_id |-> Undefined]
    ELSE [type |-> "done", content |-> <<>>,
          message_id |-> IF Len(p) = 4 THEN DigitVal(p[3])
                         ELSE IF Len(p) = 5 THEN 10 * DigitVal(p[3]) + DigitVal(p[4])
                         ELSE Undefined]

\* a reader that keeps no carry buffer between reads
ReadLinesNoCarry(buffer, value) ==
    LET parts == Split(value)
    IN  [lines |-> SubSeq(parts, 1, Len(parts) - 1),
         buffer |-> parts[Len(parts)]]

\* apiStream, one read: the text after the chunk is split on newlines, the
\* last piece is kept as the carry buffer, the others are the lines
ReadLines(buffer, value) ==
    LET parts == Split(buffer \o value)
    IN  [lines |-> SubSeq(parts, 1, Len(parts) - 1),
         buffer |-> parts[Len(parts)]]

\* a reader that gives up on the lines of a read at the first payload
\* JSON.parse rejects
RECURSIVE FramesUntilMalformed(_)
FramesUntilMalformed(lines) ==
    IF lines = <<>> THEN <<>>
    ELSE LET line == Head(lines)
         IN  IF ~StartsWith(line, Marker) THEN FramesUntilMalformed(Tail(lines))
             ELSE IF JSONValid(Slice(line, 6))
             THEN <<JSONParse(Slice(line, 6))>> \o FramesUntilMalformed(Tail(lines))
             ELSE <<>>

\* apiStream, the loop over the lines of one read: what it yields, in order
RECURSIVE FramesOf(_)
FramesOf(lines) ==
    IF lines = <<>> THEN <<>>
    ELSE LET line == Head(lines)
         IN  (IF StartsWith(line, Marker) /\ JSONValid(Slice(line, 6))
              THEN <<JSONParse(Slice(line, 6))>>
              ELSE <<>>) \o FramesOf(Tail(lines))

\* ------------------------------------------------------------ chat store
Last(msgs) == msgs[Len(msgs)]

setMessages(old, msgs) == msgs

\* a store in which a second click on the same button takes the rating back
updateRatingToggle(msgs, messageId, rating) ==
    [i \in DOMAIN msgs |->
        IF msgs[i].id = messageId
        THEN [msgs[i] EXCEPT !.rating = IF @ = rating THEN NoRating ELSE rating]
        ELSE msgs[i]]

\* a store that puts a new message first
addMessageFirst(msgs, msg) == <<msg>> \o msgs

addMessage(msgs, msg) == Append(msgs, msg)

\* a store that puts new content before the old
appendToLastBefore(msgs, content) ==
    IF msgs # <<>> /\ Last(msgs).role = "assistant"
    THEN [msgs EXCEPT ![Len(msgs)].content = content \o @]
    ELSE msgs

appendToLast(msgs, content) ==
    IF msgs # <<>> /\ Last(msgs).role = "assistant"
    THEN [msgs EXCEPT ![Len(msgs)].content = @ \o content]
    ELSE msgs

\* a store that closes the last message of the assistant, streaming or not
finishStreamingAnyLast(msgs, messageId) ==
    IF msgs # <<>> /\ Last(msgs).role = "assistant"
    THEN [msgs EXCEPT ![Len(msgs)].id = messageId,
                      ![Len(msgs)].isStreaming = FALSE]
    ELSE msgs

finishStreaming(msgs, messageId) ==
    IF msgs # <<>> /\ Last(msgs).role = "assistant" /\ Last(msgs).isStreaming
    THEN [msgs EXCEPT ![Len(msgs)].id = messageId,
                      ![Len(msgs)].isStreaming = FALSE]
    ELSE msgs

\* a store that rates the last message when no message has the id
updateRatingOrLast(msgs, messageId, rating) ==
    IF \E i \in DOMAIN msgs : msgs[i].id = messageId
    THEN [i \in DOMAIN msgs |->
             IF msgs[i].id = messageId THEN [msgs[i] EXCEPT !.rating = rating]
             ELSE msgs[i]]
    ELSE IF msgs = <<>> THEN msgs
    ELSE [msgs EXCEPT ![Len(msgs)].rating = rating]

updateRating(msgs, messageId, rating) ==
    [i \in DOMAIN msgs |->
        IF msgs[i].id = messageId THEN [msgs[i] EXCEPT !.rating = rating]
        ELSE msgs[i]]


\* a store that puts an older page after the messages held
prependMessagesAfter(old, msgs) == old \o msgs

prependMessages(old, msgs) == msgs \o old


\* ------------------------------------------------------------ state
VARIABLES
    messages,   \* useChatStore: the message list
    hasMore,    \* useChatStore: hasMore
    mounted,    \* whether the router shows the Chat page
    isSending,  \* Chat: the in-flight flag of the mounted instance
    pending,    \* getChatHistory requests not yet settled
    sends,      \* per accepted submit: the run of handleSend it started
    nReads,     \* chunks delivered so far
    nRates,     \* clicks on a feedback button so far
    meta,       \* history: per message, who made it and what was delivered to it
    log,        \* history: the events apiStream yielded and handleSend's loop ran on
    feedback,   \* sendChatFeedback requests not yet settled
    audit,      \* the Audit page: the mounted instance, its run of handleAudit
    auth,       \* useAuthStore, the token of the API client, the run of login
    clicks,     \* history: the calls of handleRate and the requests that failed
    session,    \* history: the calls of authenticate and what the requests carried
    reader      \* one run of apiStream on its own: the wire, the carry buffer, the yields

vars == <<messages, hasMore, mounted, isSending, pending, sends,
          meta, nReads, nRates, log, reader, feedback, clicks, audit, auth,
          session>>

SendIds == 1..MaxSends

\* what the text field may hold when handleSend runs
Inputs == {<<>>, <<" ">>, <<" ", "h", " ">>}

\* replies of GET /chat/history: messages the server persisted earlier
HistoryReplies ==
    {[messages |-> <<>>, has_more |-> FALSE],
     [messages |->
         <<[id |-> 8, role |-> "user", content |-> <<"q">>, rating |-> NoRating,
            isStreaming |-> FALSE],
           [id |-> 9, role |-> "assistant", content |-> <<"r">>, rating |-> NoRating,
            isStreaming |-> FALSE]>>,
      has_more |-> TRUE]}

\* a message the server persisted under id: questions have even ids
Persisted(id) ==
    [id |-> id, role |-> IF id % 2 = 0 THEN "user" ELSE "assistant",
     content |-> IF id % 2 = 0 THEN <<"q">> ELSE <<"r">>, rating |-> NoRating,
     isStreaming |-> FALSE]

\* pages of GET /chat/history older than, or overlapping, the first page
OlderPages == {<<Persisted(i), Persisted(i + 1)>> : i \in 6..8}

Line(payload) == Marker \o payload \o <<NL>>

\* the digit of the message_id the server gives the reply to submit h
DigitOf(h) == CASE h = 1 -> "1" [] h = 2 -> "2" [] h = 3 -> "3" [] OTHER -> "4"

DoneLine(h) == Line(<<"{", "d", DigitOf(h), "}">>)

\* chunks a read of the reply to submit h may deliver
Chunks(h) ==
    {Line(<<"{", "t", "x", "}">>),
     Line(<<"{", "t", "y", "}">>),
     DoneLine(h),
     Line(<<"{", "t", "y", "}">>) \o DoneLine(h),
     Line(<<"{", "e", "}">>)}

\* the same, with frames that carry nothing, lines that are no frame, lines
\* cut by the chunk boundary and chunks of two lines
TurnChunks(h) ==
    Chunks(h) \cup
    {Line(<<"{", "e", "!", "}">>),
     Line(<<"{", "d", "}">>),
     Line(<<"{", "t", "}">>),
     Line(<<"{", "}">>),
     Line(<<"{", "t">>),
     <<":", NL>>,
     Marker \o <<"{", "t">>,
     <<"x", "}", NL>>,
     Line(<<"{", "t", "x", "}">>) \o DoneLine(h),
     DoneLine(h) \o Line(<<"{", "t", "y", "}">>)}

\* pc: where the run of handleSend waits; live: whether the Chat instance
\* that runs it is still the mounted one; buffer: apiStream's carry buffer;
\* failed (history): whether the run got an error event or an exception
IdleSend == [pc |-> "idle", live |-> FALSE, buffer |-> <<>>, failed |-> FALSE]
NoLog == [yielded |-> <<>>, applied |-> <<>>]
NoClicks == [calls |-> <<>>, failed |-> <<>>]

\* result, isAuditing: the state of the mounted Audit page; pending: whether
\* its getAuditHistory is in flight; loaded: whether history was set; pc:
\* where its run of handleAudit waits; buffer: apiStream's carry buffer;
\* texts, accepted, seen, nReads, threw (history): the texts handleAudit was
\* called with, how many it took, the events the loop of the last run ran on,
\* the chunks delivered so far, whether the last run ended in its catch block
NoAudit ==
    [mounted |-> FALSE, result |-> <<>>, isAuditing |-> FALSE, pending |-> FALSE,
     loaded |-> FALSE, pc |-> "idle", buffer |-> <<>>,
     texts |-> <<>>, accepted |-> 0, seen |-> <<>>, nReads |-> 0, threw |-> FALSE]
\* cuts (history): where in a line the chunk boundaries fell so far
IdleReader ==
    [wire |-> <<>>, rx |-> <<>>, buffer |-> <<>>, yielded |-> <<>>, pc |-> "off",
     cuts |-> {}]

TypeOK ==
    /\ hasMore \in BOOLEAN
    /\ mounted \in BOOLEAN
    /\ pending \in 0..MaxPending
    /\ nReads \in 0..MaxReads
    /\ isSending \in BOOLEAN
    /\ \A h \in SendIds : sends[h].pc \in {"idle", "fetch", "read", "done"}
    /\ Len(meta) = Len(messages)
    /\ \A i \in DOMAIN messages :
          /\ messages[i].role \in {"user", "assistant"}
          /\ messages[i].isStreaming \in BOOLEAN
          /\ messages[i].rating \in {NoRating, 1, 0 - 1}

InitChat ==
    /\ messages = <<>>
    /\ hasMore = FALSE
    /\ mounted = FALSE
    /\ pending = 0
    /\ nReads = 0
    /\ nRates = 0
    /\ isSending = FALSE
    /\ sends = [h \in SendIds |-> IdleSend]
    /\ meta = <<>>
    /\ log = NoLog
    /\ feedback = <<>>
    /\ clicks = NoClicks
    /\ audit = NoAudit

\* ------------------------------------------------------------ Auth Gate
Null == "null"

\* useAuthStore and _token as created; pc: whether AuthGate's mount effect
\* has yet to run ("new"), authenticate is in flight ("login") or not
\* ("idle"); more: the calls of authenticate in flight besides that one
NoSession ==
    [user |-> Null, isLoading |-> TRUE, error |-> Null, errorCode |-> Null,
     token |-> Null, pc |-> "new", more |-> 0]

\* the state a first login that succeeds leaves
SignedIn ==
    [user |-> "u", isLoading |-> FALSE, error |-> Null, errorCode |-> Null,
     token |-> "t", pc |-> "idle", more |-> 0]

\* a gate that lets the pages in without a user
GateViewNoUser(a) ==
    IF a.isLoading THEN "loading"
    ELSE IF a.errorCode = "ONBOARDING_REQUIRED" THEN "onboarding"
    ELSE IF a.error # Null THEN "error"
    ELSE "children"

\* a gate that looks at the error before the error code
GateViewErrorFirst(a) ==
    IF a.isLoading THEN "loading"
    ELSE IF a.error # Null \/ a.user = Null THEN "error"
    ELSE IF a.errorCode = "ONBOARDING_REQUIRED" THEN "onboarding"
    ELSE "children"

\* what AuthGate renders
GateView(a) ==
    IF a.isLoading THEN "loading"
    ELSE IF a.errorCode = "ONBOARDING_REQUIRED" THEN "onboarding"
    ELSE IF a.error # Null \/ a.user = Null THEN "error"
    ELSE "children"

\* whether the screen AuthGate renders has the retry button
RetryShown(a) == GateView(a) = "error"

\* logins (history): the calls of authenticate so far; stale: whether the
\* call in flight was made before the last logout; out: whether logout was
\* called and no login called after it has succeeded since; bearer: what the
\* last request of a page had as its Authorization header; last: how the
\* call of authenticate that settled last, after the last logout, ended
NoTraffic ==
    [logins |-> 0, stale |-> FALSE, out |-> FALSE, bearer |-> <<>>, last |-> "none"]

Init == InitChat /\ reader = IdleReader /\ auth = NoSession /\ session = NoTraffic

\* the app with the login at start-up done
InitSignedIn ==
    InitChat /\ reader = IdleReader /\ auth = SignedIn /\ session = NoTraffic

\* ------------------------------------------------------------ history of a message
NewMeta(key) == [key |-> key, by |-> 0, toks |-> <<>>, other |-> FALSE]
UserKey(h) == 2 * h - 1
PlaceholderKey(h) == 2 * h

\* appendToLast(content) was called: a token while the last message streams
\* is noted in toks, any other text appended in other
NoteAppend(msgs, mt, content, isToken) ==
    IF msgs # <<>> /\ Last(msgs).role = "assistant"
    THEN IF isToken /\ Last(msgs).isStreaming
         THEN [mt EXCEPT ![Len(mt)].toks = Append(@, content)]
         ELSE [mt EXCEPT ![Len(mt)].other = TRUE]
    ELSE mt

\* finishStreaming was called by the handler of submit h
NoteFinish(msgs, mt, h) ==
    IF msgs # <<>> /\ Last(msgs).role = "assistant" /\ Last(msgs).isStreaming
    THEN [mt EXCEPT ![Len(mt)].by = h]
    ELSE mt

\* ------------------------------------------------------------ Chat page
\* the body of the for-await loop of handleSend, for one event
OnEvent(s, h, event) ==
    IF event.type = "token" /\ event.content # <<>>
    THEN [s EXCEPT !.messages = appendToLast(s.messages, event.content),
                   !.meta = NoteAppend(s.messages, s.meta, event.content, TRUE)]
    ELSE IF event.type = "done" /\ Truthy(event.message_id)
    THEN [s EXCEPT !.messages = finishStreaming(s.messages, event.message_id),
                   !.meta = NoteFinish(s.messages, s.meta, h)]
    ELSE IF event.type = "error"
    THEN LET c == IF event.content # <<>> THEN event.content ELSE Oshibka
             m1 == appendToLast(s.messages, c)
         IN  [s EXCEPT !.messages = finishStreaming(m1, Sentinel),
                       !.meta = NoteFinish(m1, NoteAppend(s.messages, s.meta, c, FALSE), h)]
    ELSE s

\* a loop that breaks once it has seen a done event
RECURSIVE ConsumeUntilDone(_, _, _)
ConsumeUntilDone(s, h, events) ==
    IF events = <<>> THEN s
    ELSE LET s1 == [OnEvent(s, h, Head(events)) EXCEPT !.applied = Append(@, Head(events))]
         IN  IF Head(events).type = "done" THEN s1
             ELSE ConsumeUntilDone(s1, h, Tail(events))

\* the for-await loop over the events one read yields; applied logs the
\* events the body ran on
RECURSIVE Consume(_, _, _)
Consume(s, h, events) ==
    IF events = <<>> THEN s
    ELSE Consume([OnEvent(s, h, Head(events)) EXCEPT !.applied = Append(@, Head(events))],
                 h, Tail(events))

\* the catch block of handleSend
OnThrow(s, h) ==
    LET m1 == appendToLast(s.messages, Fallback)
    IN  [s EXCEPT !.messages = finishStreaming(m1, Sentinel),
                  !.meta = NoteFinish(m1, NoteAppend(s.messages, s.meta, Fallback, FALSE), h)]

HasError(events) == \E i \in DOMAIN events : events[i].type = "error"

Store == [messages |-> messages, meta |-> meta, applied |-> <<>>]

\* an end of handleSend that leaves the flag as it is
ClearSendingNever(h) == isSending

\* setIsSending(false): the flag of the instance that ran handleSend, which
\* exists only while that instance is mounted
ClearSending(h) == IF sends[h].live THEN FALSE ELSE isSending

\* the router shows the Chat page: a fresh instance, whose mount effect
\* requests the first history page
MountChat ==
    /\ GateView(auth) = "children"
    /\ ~audit.mounted
    /\ ~mounted
    /\ pending < MaxPending
    /\ mounted' = TRUE
    /\ isSending' = FALSE
    /\ pending' = pending + 1
    /\ UNCHANGED <<nReads, nRates, messages, hasMore, sends, meta>>

\* the router shows another page: the instance and its local state are gone,
\* the runs of handleSend it started go on
UnmountChat ==
    /\ mounted
    /\ mounted' = FALSE
    /\ isSending' = FALSE
    /\ sends' = [h \in SendIds |-> [sends[h] EXCEPT !.live = FALSE]]
    /\ UNCHANGED <<nReads, nRates, messages, hasMore, pending, meta>>

\* a getChatHistory(0, 30) resolves with ok and data
HistoryLoaded(res) ==
    /\ pending > 0
    /\ pending' = pending - 1
    /\ messages' = setMessages(messages, res.messages)
    /\ hasMore' = res.has_more
    /\ meta' = [i \in DOMAIN res.messages |->
                   [NewMeta(0 - res.messages[i].id) EXCEPT !.other = TRUE]]
    /\ UNCHANGED <<nReads, nRates, mounted, isSending, sends>>

\* a getChatHistory rejects, or resolves without ok and data
HistoryFailed ==
    /\ pending > 0
    /\ pending' = pending - 1
    /\ UNCHANGED <<nReads, nRates, messages, hasMore, mounted, isSending, sends, meta>>

NextSend ==
    CHOOSE h \in SendIds :
        sends[h].pc = "idle" /\ \A g \in 1..(h - 1) : sends[g].pc # "idle"

\* handleSend up to its first await, with the text field holding input: the
\* guard, the two addMessage calls and the request of the stream
HandleSend(input) ==
    /\ mounted
    /\ LET text == Trim(input)
       IN  IF text = <<>> \/ isSending
           THEN UNCHANGED <<nReads, nRates, messages, hasMore, mounted, isSending, pending, sends, meta>>
           ELSE /\ \E h \in SendIds : sends[h].pc = "idle"
                /\ LET h == NextSend
                       m1 == addMessage(messages,
                                 [id |-> Undefined, role |-> "user", content |-> text,
                                  rating |-> NoRating, isStreaming |-> FALSE])
                       m2 == addMessage(m1,
                                 [id |-> Undefined, role |-> "assistant", content |-> <<>>,
                                  rating |-> NoRating, isStreaming |-> TRUE])
                   IN  /\ isSending' = TRUE
                       /\ messages' = m2
                       /\ meta' = meta \o <<NewMeta(UserKey(h)), NewMeta(PlaceholderKey(h))>>
                       /\ sends' = [sends EXCEPT ![h] = [IdleSend EXCEPT !.pc = "fetch", !.live = TRUE]]
                /\ UNCHANGED <<nReads, nRates, hasMore, mounted, pending>>

\* fetch rejects, or the response is not ok: apiStream throws into the catch block
FetchFailed(h) ==
    /\ sends[h].pc = "fetch"
    /\ LET s == OnThrow(Store, h)
       IN  /\ messages' = s.messages
           /\ meta' = s.meta
    /\ isSending' = ClearSending(h)
    /\ sends' = [sends EXCEPT ![h].pc = "done", ![h].failed = TRUE]
    /\ UNCHANGED <<nReads, nRates, hasMore, mounted, pending>>

\* the response is ok and has no body: apiStream returns, the loop ends
FetchNoBody(h) ==
    /\ sends[h].pc = "fetch"
    /\ isSending' = ClearSending(h)
    /\ sends' = [sends EXCEPT ![h].pc = "done"]
    /\ UNCHANGED <<nReads, nRates, messages, hasMore, mounted, pending, meta>>

\* the response is ok: apiStream awaits the first read
FetchOk(h) ==
    /\ sends[h].pc = "fetch"
    /\ sends' = [sends EXCEPT ![h].pc = "read"]
    /\ UNCHANGED <<nReads, nRates, messages, hasMore, mounted, isSending, pending, meta>>

\* reader.read() resolves with a chunk: apiStream yields the frames of its
\* complete lines and handleSend's loop body runs on each
ReadChunk(h, value) ==
    /\ sends[h].pc = "read"
    /\ nReads < MaxReads
    /\ nReads' = nReads + 1
    /\ LET r == ReadLines(sends[h].buffer, value)
           s == Consume(Store, h, FramesOf(r.lines))
       IN  /\ messages' = s.messages
           /\ meta' = s.meta
           /\ sends' = [sends EXCEPT ![h].buffer = r.buffer,
                                     ![h].failed = @ \/ HasError(s.applied)]
    /\ UNCHANGED <<nRates, hasMore, mounted, isSending, pending>>

\* reader.read() resolves with done: apiStream returns, the loop ends
ReadDone(h) ==
    /\ sends[h].pc = "read"
    /\ isSending' = ClearSending(h)
    /\ sends' = [sends EXCEPT ![h].pc = "done"]
    /\ UNCHANGED <<nReads, nRates, messages, hasMore, mounted, pending, meta>>

\* reader.read() rejects: the catch block runs
ReadFailed(h) ==
    /\ sends[h].pc = "read"
    /\ LET s == OnThrow(Store, h)
       IN  /\ messages' = s.messages
           /\ meta' = s.meta
    /\ isSending' = ClearSending(h)
    /\ sends' = [sends EXCEPT ![h].pc = "done", ![h].failed = TRUE]
    /\ UNCHANGED <<nReads, nRates, hasMore, mounted, pending>>

\* the feedback buttons ChatMessage shows for a message
\* buttons shown whatever the id is
RateableAnyId(m) == m.role # "user" /\ ~m.isStreaming

Rateable(m) == m.role # "user" /\ ~m.isStreaming /\ Truthy(m.id)

\* handleRate from the buttons of message i: the rating is set in the store
\* and the feedback request is sent, which handleRate does not await
HandleRate(i, rating) ==
    /\ mounted
    /\ i \in DOMAIN messages
    /\ Rateable(messages[i])
    /\ nRates' = nRates + 1
    /\ messages' = updateRating(messages, messages[i].id, rating)
    /\ feedback' = Append(feedback, [id |-> messages[i].id, rating |-> rating])
    /\ UNCHANGED <<nReads, hasMore, mounted, isSending, pending, sends, meta>>

\* an older page of the history arrives and is put before the held messages
PrependMessages(page) ==
    /\ mounted
    /\ messages # <<>>
    /\ Len(messages) + Len(page) <= MaxHeld
    /\ messages' = prependMessages(messages, page)
    /\ meta' = [i \in DOMAIN page |-> [NewMeta(0 - page[i].id) EXCEPT !.other = TRUE]]
                   \o meta
    /\ UNCHANGED <<nReads, nRates, hasMore, mounted, isSending, pending, sends>>

\* a handler of a failed feedback request that takes the rating back
OnFeedbackErrorRollback(msgs, req) == updateRating(msgs, req.id, NoRating)

\* .catch(console.error) of handleRate: the store is not touched
OnFeedbackError(msgs, req) == msgs

Without(seq, k) == SubSeq(seq, 1, k - 1) \o SubSeq(seq, k + 1, Len(seq))

\* the k-th feedback request in flight resolves: nothing awaits the result
FeedbackOk(k) ==
    /\ k \in DOMAIN feedback
    /\ feedback' = Without(feedback, k)
    /\ UNCHANGED <<nReads, nRates, messages, hasMore, mounted, isSending, pending,
                   sends, meta>>

\* the k-th feedback request in flight rejects: the error is logged
FeedbackFailed(k) ==
    /\ k \in DOMAIN feedback
    /\ feedback' = Without(feedback, k)
    /\ messages' = OnFeedbackError(messages, feedback[k])
    /\ UNCHANGED <<nReads, nRates, hasMore, mounted, isSending, pending, sends, meta>>

\* ------------------------------------------------------------ session
\* what a 2xx reply of POST /auth that has ok and data carries
AuthReplies == {[token |-> "t", user |-> "u"], [token |-> "t", user |-> Null]}

\* what login catches: the object authenticate throws for a reply that is
\* not 2xx, or an error of fetch or of res.json() that has no code
AuthErrors ==
    {[code |-> "ONBOARDING_REQUIRED", message |-> "m"],
     [code |-> "AUTH_FAILED", message |-> "m"],
     [code |-> Null, message |-> Null]}

\* AuthGate renders again after a change of the store: its children, the
\* routed pages, exist only in the view "children"
RenderGate ==
    IF GateView(auth') = "children"
    THEN UNCHANGED <<mounted, isSending, sends, audit>>
    ELSE /\ mounted' = FALSE
         /\ isSending' = FALSE
         /\ sends' = [h \in SendIds |-> [sends[h] EXCEPT !.live = FALSE]]
         /\ audit' = IF audit.mounted
                      THEN [NoAudit EXCEPT !.texts = audit.texts,
                                           !.accepted = audit.accepted,
                                           !.nReads = audit.nReads]
                      ELSE audit

\* the step touches nothing of the pages but whether they are rendered
GatePages ==
    /\ RenderGate
    /\ UNCHANGED <<messages, hasMore, pending, meta, nReads, nRates, log, reader,
                   feedback, clicks>>

GateOnly == GatePages /\ UNCHANGED session

\* login up to its await: the flags are reset and authenticate is called
StartLogin ==
    auth' = [auth EXCEPT !.isLoading = TRUE, !.error = Null, !.errorCode = Null,
                         !.pc = "login"]

\* an effect that runs after every render that leaves no login in flight
AuthGateMountEachRender ==
    /\ auth.pc # "login"
    /\ auth' = [auth EXCEPT !.isLoading = TRUE, !.error = Null, !.errorCode = Null,
                            !.pc = "login"]

\* the mount effect of AuthGate
AuthGateMount ==
    /\ auth.pc = "new"
    /\ StartLogin

\* the button of the error screen
RetryLogin ==
    /\ auth.pc # "new"
    /\ RetryShown(auth)
    /\ StartLogin

\* one call of authenticate has settled: what is left in flight
Settled(a) == IF a.more > 0 THEN [a EXCEPT !.more = @ - 1] ELSE [a EXCEPT !.pc = "idle"]

\* a login that takes the user of the reply and leaves the token aside
LoginOkKeepsToken(data) ==
    /\ auth.pc = "login"
    /\ auth' = Settled([auth EXCEPT !.user = data.user, !.isLoading = FALSE])

\* authenticate resolves with ok and data
LoginOk(data) ==
    /\ auth.pc = "login"
    /\ auth' = Settled([auth EXCEPT !.token = data.token, !.user = data.user,
                                    !.isLoading = FALSE])

\* a login whose else branch leaves isLoading as it is
LoginNoDataStillLoading ==
    /\ auth.pc = "login"
    /\ auth' = Settled([auth EXCEPT !.error = "Auth failed",
                                    !.errorCode = "AUTH_FAILED"])

\* authenticate resolves without ok or without data
LoginNoData ==
    /\ auth.pc = "login"
    /\ auth' = Settled([auth EXCEPT !.error = "Auth failed",
                                    !.errorCode = "AUTH_FAILED",
                                    !.isLoading = FALSE])

\* authenticate rejects with err
LoginRejected(err) ==
    /\ auth.pc = "login"
    /\ auth' = Settled([auth EXCEPT
                   !.error = IF err.message # Null THEN err.message ELSE "Auth failed",
                   !.errorCode = IF err.code # Null THEN err.code ELSE "AUTH_FAILED",
                   !.isLoading = FALSE])

\* useAuthStore.login called by other than AuthGate, at any time after
\* start-up: with a call in flight, one more is in flight after it
Login ==
    /\ auth.pc # "new"
    /\ auth' = [auth EXCEPT !.isLoading = TRUE, !.error = Null, !.errorCode = Null,
                            !.more = IF auth.pc = "login" THEN @ + 1 ELSE @,
                            !.pc = "login"]

\* an updateUser that makes a user of the fields given when none is held
UpdateUserAlways ==
    /\ auth.pc # "new"
    /\ auth' = [auth EXCEPT !.user = "v"]

\* useAuthStore.updateUser: the fields given are merged into the user held
UpdateUser ==
    /\ auth.pc # "new"
    /\ auth' = [auth EXCEPT !.user = IF @ # Null THEN "v" ELSE Null]

\* useAuthStore.logout
Logout ==
    /\ auth.pc # "new"
    /\ auth' = [auth EXCEPT !.token = Null, !.user = Null, !.error = Null,
                            !.errorCode = Null]

\* ------------------------------------------------------------ the chat conversation
\* the step touches neither the log of an exchange nor the lone reader, and
\* no feedback request
QuietRate == UNCHANGED <<log, reader, clicks, audit, auth, session>>
Quiet == QuietRate /\ UNCHANGED feedback

Next ==
    \/ AuthGateMount /\ GateOnly
    \/ RetryLogin /\ GateOnly
    \/ \E data \in AuthReplies : LoginOk(data) /\ GateOnly
    \/ LoginNoData /\ GateOnly
    \/ \E err \in AuthErrors : LoginRejected(err) /\ GateOnly
    \/ MountChat /\ Quiet
    \/ UnmountChat /\ Quiet
    \/ \E res \in HistoryReplies : HistoryLoaded(res) /\ Quiet
    \/ HistoryFailed /\ Quiet
    \/ \E text \in Inputs : HandleSend(text) /\ Quiet
    \/ \E h \in SendIds : FetchFailed(h) /\ Quiet
    \/ \E h \in SendIds : FetchNoBody(h) /\ Quiet
    \/ \E h \in SendIds : FetchOk(h) /\ Quiet
    \/ \E h \in SendIds : \E value \in Chunks(h) : ReadChunk(h, value) /\ Quiet
    \/ \E h \in SendIds : ReadDone(h) /\ Quiet
    \/ \E h \in SendIds : ReadFailed(h) /\ Quiet
    \/ \E i \in DOMAIN messages, rating \in {1, 0 - 1} :
          HandleRate(i, rating) /\ nRates < MaxRates /\ QuietRate
    \/ \E k \in DOMAIN feedback : FeedbackOk(k) /\ QuietRate
    \/ \E k \in DOMAIN feedback : FeedbackFailed(k) /\ QuietRate

Spec == Init /\ [][Next]_vars

\* ------------------------------------------------------------ one exchange, logged
\* what the read of a chunk adds to the log of the exchange
LogRead(h, value) ==
    LET r == ReadLines(sends[h].buffer, value)
        events == FramesOf(r.lines)
    IN  log' = [yielded |-> log.yielded \o events,
                applied |-> log.applied \o Consume(Store, h, events).applied]

\* the first exchange of one instance of the Chat page, with every kind of chunk
NextTurn ==
    \/ MountChat /\ Quiet
    \/ \E text \in Inputs : HandleSend(text) /\ sends[1].pc = "idle" /\ Quiet
    \/ FetchFailed(1) /\ Quiet
    \/ FetchNoBody(1) /\ Quiet
    \/ FetchOk(1) /\ Quiet
    \/ \E value \in TurnChunks(1) :
          ReadChunk(1, value) /\ LogRead(1, value) /\ UNCHANGED <<reader, feedback, clicks, audit, auth, session>>
    \/ ReadDone(1) /\ Quiet
    \/ ReadFailed(1) /\ Quiet

SpecTurn == InitSignedIn /\ [][NextTurn]_vars

\* ------------------------------------------------------------ the ratings, logged
\* the Chat page with its history, older pages of it and the feedback
\* buttons, every click logged
NextRate ==
    \/ MountChat /\ Quiet
    \/ UnmountChat /\ Quiet
    \/ \E res \in HistoryReplies : HistoryLoaded(res) /\ Quiet
    \/ HistoryFailed /\ Quiet
    \/ \E page \in OlderPages : PrependMessages(page) /\ Quiet
    \/ \E i \in DOMAIN messages, rating \in {1, 0 - 1} :
          /\ HandleRate(i, rating)
          /\ nRates < MaxClicks
          /\ clicks' = [clicks EXCEPT
                           !.calls = Append(@, [id |-> messages[i].id, rating |-> rating])]
          /\ UNCHANGED <<log, reader, audit, auth, session>>
    \/ \E k \in DOMAIN feedback : FeedbackOk(k) /\ QuietRate
    \/ \E k \in DOMAIN feedback :
          /\ FeedbackFailed(k)
          /\ clicks' = [clicks EXCEPT !.failed = Append(@, feedback[k])]
          /\ UNCHANGED <<log, reader, audit, auth, session>>

SpecRate == InitSignedIn /\ [][NextRate]_vars

\* ------------------------------------------------------------ Audit page
Fill(n) == [i \in 1..n |-> "a"]

\* what the text area may hold when handleAudit runs
AuditTexts ==
    {<<>>, Fill(49), Fill(50), <<" ">> \o Fill(49) \o <<" ">>, <<" ">> \o Fill(50)}

\* chunks a read of the reply to an audit may deliver
AuditChunks ==
    {Line(<<"{", "t", "x", "}">>),
     Line(<<"{", "t", "y", "}">>),
     Line(<<"{", "t", "}">>),
     Line(<<"{", "d", "}">>),
     Line(<<"{", "e", "!", "}">>),
     Line(<<"{", "e", "}">>),
     Line(<<"{", "t", "x", "}">>) \o Line(<<"{", "d", "}">>),
     Line(<<"{", "e", "!", "}">>) \o Line(<<"{", "t", "y", "}">>)}

\* a guard that measures the text as the counter under the text area does
AuditAcceptsUntrimmed(text, isAuditing) ==
    ~(Len(text) = 0 \/ Len(text) < MinAuditLen \/ isAuditing)

\* the guard of handleAudit, negated: whether the call goes on
AuditAccepts(text, isAuditing) ==
    ~(Trim(text) = <<>> \/ Len(Trim(text)) < MinAuditLen \/ isAuditing)

\* a loop body that adds the error text to what was received
OnAuditEventAppend(result, event) ==
    IF event.type = "token" /\ event.content # <<>> THEN result \o event.content
    ELSE IF event.type = "error"
    THEN result \o (IF event.content # <<>> THEN event.content ELSE AuditOshibka)
    ELSE result

\* the body of the for-await loop of handleAudit, for one event
OnAuditEvent(result, event) ==
    IF event.type = "token" /\ event.content # <<>> THEN result \o event.content
    ELSE IF event.type = "done" THEN result
    ELSE IF event.type = "error"
    THEN (IF event.content # <<>> THEN event.content ELSE AuditOshibka)
    ELSE result

RECURSIVE AuditConsume(_, _)
AuditConsume(result, events) ==
    IF events = <<>> THEN result
    ELSE AuditConsume(OnAuditEvent(result, Head(events)), Tail(events))

\* the router shows the Audit page: a fresh instance, whose mount effect
\* requests the audit history
MountAudit ==
    /\ GateView(auth) = "children"
    /\ ~mounted
    /\ ~audit.mounted
    /\ audit' = [audit EXCEPT !.mounted = TRUE, !.pending = TRUE]

\* the router shows another page: the instance and its state are gone; a run
\* of handleAudit and a history request go on, their setState calls reach
\* no mounted instance
UnmountAudit ==
    /\ audit.mounted
    /\ audit' = [NoAudit EXCEPT !.texts = audit.texts, !.accepted = audit.accepted,
                                !.nReads = audit.nReads]

\* getAuditHistory resolves with ok and data (loaded), or without, or rejects
AuditHistorySettled(loaded) ==
    /\ audit.pending
    /\ audit' = [audit EXCEPT !.pending = FALSE, !.loaded = loaded]

\* handleAudit up to its first await, with the text area holding text
HandleAudit(text) ==
    /\ audit.mounted
    /\ Len(audit.texts) < MaxAudits
    /\ IF AuditAccepts(text, audit.isAuditing)
       THEN audit' = [audit EXCEPT !.isAuditing = TRUE, !.result = <<>>,
                                   !.pc = "fetch", !.buffer = <<>>, !.seen = <<>>,
                                   !.texts = Append(@, text), !.accepted = @ + 1,
                                   !.threw = FALSE]
       ELSE audit' = [audit EXCEPT !.texts = Append(@, text)]

\* fetch rejects, or the response is not ok: apiStream throws into the catch block
AuditFetchFailed ==
    /\ audit.pc = "fetch"
    /\ audit' = [audit EXCEPT !.result = Fallback, !.isAuditing = FALSE, !.pc = "idle",
                              !.threw = TRUE]

\* the response is ok and has no body: apiStream returns, the loop ends
AuditFetchNoBody ==
    /\ audit.pc = "fetch"
    /\ audit' = [audit EXCEPT !.isAuditing = FALSE, !.pc = "idle"]

\* the response is ok: apiStream awaits the first read
AuditFetchOk ==
    /\ audit.pc = "fetch"
    /\ audit' = [audit EXCEPT !.pc = "read"]

\* reader.read() resolves with a chunk: apiStream yields the frames of its
\* complete lines and handleAudit's loop body runs on each
AuditReadChunk(value) ==
    /\ audit.pc = "read"
    /\ audit.nReads < MaxAuditReads
    /\ LET r == ReadLines(audit.buffer, value)
           events == FramesOf(r.lines)
       IN  audit' = [audit EXCEPT !.result = AuditConsume(@, events),
                                   !.buffer = r.buffer,
                                   !.seen = @ \o events,
                                   !.nReads = @ + 1]

\* reader.read() resolves with done: apiStream returns, the loop ends
AuditReadDone ==
    /\ audit.pc = "read"
    /\ audit' = [audit EXCEPT !.isAuditing = FALSE, !.pc = "idle"]

\* a catch block that adds its text to what the result holds
AuditReadFailedKeepsPartial ==
    /\ audit.pc = "read"
    /\ audit' = [audit EXCEPT !.result = @ \o Fallback, !.isAuditing = FALSE,
                              !.pc = "idle", !.threw = TRUE]

\* reader.read() rejects: the catch block runs
AuditReadFailed ==
    /\ audit.pc = "read"
    /\ audit' = [audit EXCEPT !.result = Fallback, !.isAuditing = FALSE, !.pc = "idle",
                              !.threw = TRUE]

\* the step touches nothing but the Audit page
AuditOnly ==
    UNCHANGED <<messages, hasMore, mounted, isSending, pending, sends, meta,
                nReads, nRates, log, reader, feedback, clicks, auth, session>>

NextAudit ==
    \/ MountAudit /\ AuditOnly
    \/ UnmountAudit /\ AuditOnly
    \/ \E loaded \in BOOLEAN : AuditHistorySettled(loaded) /\ AuditOnly
    \/ \E text \in AuditTexts : HandleAudit(text) /\ AuditOnly
    \/ AuditFetchFailed /\ AuditOnly
    \/ AuditFetchNoBody /\ AuditOnly
    \/ AuditFetchOk /\ AuditOnly
    \/ \E value \in AuditChunks : AuditReadChunk(value) /\ AuditOnly
    \/ AuditReadDone /\ AuditOnly
    \/ AuditReadFailed /\ AuditOnly

SpecAudit == InitSignedIn /\ [][NextAudit]_vars

\* the promise of fetch settles, and so does the promise of each read of
\* the body, which is finite
AuditFetchSettles ==
    (AuditFetchFailed \/ AuditFetchNoBody \/ AuditFetchOk) /\ AuditOnly
AuditReadSettles ==
    ((\E value \in AuditChunks : AuditReadChunk(value)) \/ AuditReadDone
        \/ AuditReadFailed) /\ AuditOnly

SpecAuditLive ==
    SpecAudit /\ WF_vars(AuditFetchSettles) /\ WF_vars(AuditReadSettles)

\* ------------------------------------------------------------ the gated pages
\* the session and the requests the pages send under it
NextGate ==
    \/ AuthGateMount /\ GateOnly
    \/ RetryLogin /\ GateOnly
    \/ \E data \in AuthReplies : LoginOk(data) /\ GateOnly
    \/ LoginNoData /\ GateOnly
    \/ \E err \in AuthErrors : LoginRejected(err) /\ GateOnly
    \/ Logout /\ GateOnly
    \/ MountChat /\ Quiet
    \/ UnmountChat /\ Quiet
    \/ \E res \in HistoryReplies : HistoryLoaded(res) /\ Quiet
    \/ HistoryFailed /\ Quiet
    \/ \E text \in Inputs : HandleSend(text) /\ Quiet
    \/ \E h \in SendIds : FetchFailed(h) /\ Quiet
    \/ \E i \in DOMAIN messages, rating \in {1, 0 - 1} :
          HandleRate(i, rating) /\ nRates < MaxRates /\ QuietRate
    \/ \E k \in DOMAIN feedback : FeedbackOk(k) /\ QuietRate
    \/ MountAudit /\ AuditOnly
    \/ UnmountAudit /\ AuditOnly
    \/ \E loaded \in BOOLEAN : AuditHistorySettled(loaded) /\ AuditOnly
    \/ \E text \in AuditTexts : HandleAudit(text) /\ AuditOnly
    \/ AuditFetchFailed /\ AuditOnly

SpecGate == Init /\ [][NextGate]_vars

\* ------------------------------------------------------------ the session, logged
\* the Authorization header apiFetch and apiStream give a request
\* (the empty tuple: no such header)
Authorization(token) == IF token # Null THEN <<"Bearer", token>> ELSE <<>>

\* 2xx replies of POST /auth with ok and data, with two tokens
SessionReplies ==
    {[token |-> "t1", user |-> "u"], [token |-> "t2", user |-> "u"],
     [token |-> "t1", user |-> Null]}

\* what login catches, the reply's detail.error.code being any string
SessionErrors == AuthErrors \cup {[code |-> "OTHER", message |-> "m"]}

NoteLogin == session' = [session EXCEPT !.logins = @ + 1, !.stale = FALSE]
NoteSettled == session' = [session EXCEPT !.stale = FALSE, !.last = "failed"]
NoteLoginOk ==
    session' = [session EXCEPT !.stale = FALSE,
                               !.out = IF session.stale THEN @ ELSE FALSE,
                               !.last = "ok"]
NoteLogout ==
    session' = [session EXCEPT !.stale = (auth.pc = "login"), !.out = TRUE,
                               !.last = "none"]
\* the header is built in the task that calls the helper
NoteRequest(issued) ==
    session' = IF issued THEN [session EXCEPT !.bearer = Authorization(auth.token)]
               ELSE session

\* the step touches nothing but the Chat page and the log of the session
ChatPage == UNCHANGED <<log, reader, clicks, audit, auth>>

\* logins, logouts and the requests of the Chat page, each call and header logged
NextSession ==
    \/ AuthGateMount /\ session.logins < MaxLogins /\ GatePages /\ NoteLogin
    \/ RetryLogin /\ session.logins < MaxLogins /\ GatePages /\ NoteLogin
    \/ \E data \in SessionReplies : LoginOk(data) /\ GatePages /\ NoteLoginOk
    \/ LoginNoData /\ GatePages /\ NoteSettled
    \/ \E err \in SessionErrors : LoginRejected(err) /\ GatePages /\ NoteSettled
    \/ Logout /\ GatePages /\ NoteLogout
    \/ MountChat /\ ChatPage /\ UNCHANGED feedback /\ NoteRequest(TRUE)
    \/ UnmountChat /\ Quiet
    \/ \E res \in HistoryReplies : HistoryLoaded(res) /\ Quiet
    \/ HistoryFailed /\ Quiet
    \/ \E text \in Inputs :
          /\ HandleSend(text)
          /\ ChatPage /\ UNCHANGED feedback
          /\ NoteRequest(\E h \in SendIds : sends[h].pc = "idle" /\ sends'[h].pc = "fetch")
    \/ \E h \in SendIds : FetchFailed(h) /\ Quiet
    \/ \E i \in DOMAIN messages, rating \in {1, 0 - 1} :
          HandleRate(i, rating) /\ nRates < MaxRates /\ ChatPage /\ NoteRequest(TRUE)
    \/ \E k \in DOMAIN feedback : FeedbackOk(k) /\ QuietRate

SpecSession == Init /\ [][NextSession]_vars

\* ------------------------------------------------------------ the auth store, every operation
\* 2xx replies of POST /auth that carry what the endpoint is to return, a
\* token and a user
FullReplies == {[token |-> "t1", user |-> "u"], [token |-> "t2", user |-> "u"]}

\* a call of authenticate settles
LoginSettles ==
    \/ \E data \in FullReplies : LoginOk(data) /\ GatePages /\ NoteLoginOk
    \/ LoginNoData /\ GatePages /\ NoteSettled
    \/ \E err \in AuthErrors : LoginRejected(err) /\ GatePages /\ NoteSettled

\* the mount effect of AuthGate runs
GateMounts == AuthGateMount /\ session.logins < MaxLogins /\ GatePages /\ NoteLogin

\* login, logout and updateUser called at any time after start-up, the
\* button of the error screen being one caller of login, and the Chat page
\* as far as the gate lets it in
NextLogins ==
    \/ GateMounts
    \/ Login /\ session.logins < MaxLogins /\ GatePages /\ NoteLogin
    \/ \E data \in FullReplies : LoginOk(data) /\ GatePages /\ NoteLoginOk
    \/ LoginNoData /\ GatePages /\ NoteSettled
    \/ \E err \in AuthErrors : LoginRejected(err) /\ GatePages /\ NoteSettled
    \/ Logout /\ GatePages /\ NoteLogout
    \/ UpdateUser /\ GateOnly
    \/ MountChat /\ Quiet
    \/ UnmountChat /\ Quiet
    \/ \E res \in HistoryReplies : HistoryLoaded(res) /\ Quiet
    \/ HistoryFailed /\ Quiet

SpecLogins == Init /\ [][NextLogins]_vars

\* the mount effect runs, and the promise of every fetch settles
SpecLoginsLive == SpecLogins /\ WF_vars(GateMounts) /\ WF_vars(LoginSettles)

\* ------------------------------------------------------------ the store alone
\* the operations of useChatStore called in any order, with any of these
\* arguments
StoreContents == {<<"x">>}
StoreIds == {Sentinel, 1, 2}
StoreNew ==
    {[id |-> Undefined, role |-> "user", content |-> <<"q">>, rating |-> NoRating,
      isStreaming |-> FALSE],
     [id |-> Undefined, role |-> "assistant", content |-> <<>>, rating |-> NoRating,
      isStreaming |-> TRUE]}

\* the history kept in step with the list
StoreMeta == meta' = [i \in DOMAIN messages' |-> NewMeta(0)]

StoreAdd(msg) ==
    /\ Len(messages) < MaxStore
    /\ messages' = addMessage(messages, msg)
    /\ StoreMeta

StoreAppend(content) ==
    /\ messages # <<>>
    /\ Len(Last(messages).content) < MaxContent
    /\ messages' = appendToLast(messages, content)
    /\ StoreMeta

StoreFinish(messageId) ==
    /\ messages' = finishStreaming(messages, messageId)
    /\ StoreMeta

StoreRate(messageId, rating) ==
    /\ messages' = updateRating(messages, messageId, rating)
    /\ StoreMeta

StoreSet(msgs) ==
    /\ messages' = setMessages(messages, msgs)
    /\ StoreMeta

\* the step touches nothing but the list
StoreOnly ==
    UNCHANGED <<hasMore, mounted, isSending, pending, sends, nReads, nRates, log,
                reader, feedback, clicks, audit, auth, session>>

NextStore ==
    \/ \E msg \in StoreNew : StoreAdd(msg) /\ StoreOnly
    \/ \E content \in StoreContents : StoreAppend(content) /\ StoreOnly
    \/ \E messageId \in StoreIds : StoreFinish(messageId) /\ StoreOnly
    \/ \E messageId \in StoreIds, rating \in {1, 0 - 1} :
          StoreRate(messageId, rating) /\ StoreOnly
    \/ \E res \in HistoryReplies : StoreSet(res.messages) /\ StoreOnly

SpecStore == InitSignedIn /\ [][NextStore]_vars

\* ------------------------------------------------------------ one exchange, rated
\* the first exchange of one instance of the Chat page, logged, and the
\* feedback buttons of its messages
NextTurnRate ==
    \/ MountChat /\ Quiet
    \/ \E text \in Inputs : HandleSend(text) /\ sends[1].pc = "idle" /\ Quiet
    \/ FetchFailed(1) /\ Quiet
    \/ FetchNoBody(1) /\ Quiet
    \/ FetchOk(1) /\ Quiet
    \/ \E value \in TurnChunks(1) :
          ReadChunk(1, value) /\ LogRead(1, value) /\ UNCHANGED <<reader, feedback, clicks, audit, auth, session>>
    \/ ReadDone(1) /\ Quiet
    \/ ReadFailed(1) /\ Quiet
    \/ \E i \in DOMAIN messages, rating \in {1, 0 - 1} :
          HandleRate(i, rating) /\ nRates < MaxRates /\ QuietRate
    \/ \E k \in DOMAIN feedback : FeedbackOk(k) /\ QuietRate
    \/ \E k \in DOMAIN feedback : FeedbackFailed(k) /\ QuietRate

SpecTurnRate == InitSignedIn /\ [][NextTurnRate]_vars

\* ------------------------------------------------------------ one exchange, end to end
\* the text submitted and the body of the response: three frames
Privet == <<"P", "r", "i", "v", "e", "t">>
PrivetBody ==
    Line(<<"{", "t", "P", "r", "i", "}">>)
        \o Line(<<"{", "t", "v", "e", "t", "!", "}">>)
        \o Line(<<"{", "d", "4", "2", "}">>)

\* the response is ok; reader.wire holds what of its body is yet to be read
PrivetFetchOk ==
    /\ FetchOk(1)
    /\ reader' = [reader EXCEPT !.wire = PrivetBody]

\* a read delivers the next k characters of the body
PrivetRead(k) ==
    /\ ReadChunk(1, SubSeq(reader.wire, 1, k))
    /\ reader' = [reader EXCEPT !.wire = SubSeq(@, k + 1, Len(@))]

\* the body ends once all of it was delivered
PrivetReadDone ==
    /\ reader.wire = <<>>
    /\ ReadDone(1)

\* the step touches neither the session nor another page
PrivetOnly == UNCHANGED <<log, feedback, clicks, audit, auth, session>>

\* start-up, a login that gives token t1, the Chat page and one submit made
\* with nothing in flight, its response read in chunks cut anywhere
NextPrivet ==
    \/ AuthGateMount /\ GateOnly
    \/ LoginOk([token |-> "t1", user |-> "u"]) /\ GateOnly
    \/ MountChat /\ Quiet
    \/ \E res \in HistoryReplies : HistoryLoaded(res) /\ Quiet
    \/ HandleSend(Privet) /\ pending = 0 /\ sends[1].pc = "idle" /\ Quiet
    \/ PrivetFetchOk /\ PrivetOnly
    \/ \E k \in 1..Len(reader.wire) : PrivetRead(k) /\ PrivetOnly
    \/ PrivetReadDone /\ Quiet

SpecPrivet == Init /\ [][NextPrivet]_vars

\* ------------------------------------------------------------ the frame reader alone
\* pieces of the text of a response body
Pieces ==
    {Line(<<"{", "t", "x", "}">>),
     Line(<<"{", "d", "1", "}">>),
     Line(<<"{", "t">>),
     Line(<<"{", "}">>),
     <<":", NL>>,
     Marker \o <<"{", "t", "y", "}">>}

Wires == {Flatten(ps) : ps \in UNION {[1..n -> Pieces] : n \in 0..MaxPieces}}

InitReader ==
    /\ InitChat
    /\ auth = NoSession
    /\ session = NoTraffic
    /\ \E w \in Wires : reader = [IdleReader EXCEPT !.wire = w, !.pc = "read"]

\* where the end of a chunk fell, given the carry buffer it left: inside the
\* marker of a line, or after the marker inside the payload
CutOf(buffer) ==
    IF buffer = <<>> THEN {}
    ELSE IF Len(buffer) < Len(Marker) /\ buffer = SubSeq(Marker, 1, Len(buffer))
    THEN {"marker"}
    ELSE IF StartsWith(buffer, Marker) THEN {"payload"}
    ELSE {}

\* reader.read() resolves with the next k characters of the body
ReaderRead(k) ==
    /\ reader.pc = "read"
    /\ k \in 1..Len(reader.wire)
    /\ LET value == SubSeq(reader.wire, 1, k)
           r == ReadLines(reader.buffer, value)
       IN  reader' = [wire |-> SubSeq(reader.wire, k + 1, Len(reader.wire)),
                      rx |-> reader.rx \o value,
                      buffer |-> r.buffer,
                      yielded |-> reader.yielded \o FramesOf(r.lines),
                      pc |-> "read",
                      cuts |-> reader.cuts \cup
                                 (IF k < Len(reader.wire) THEN CutOf(r.buffer) ELSE {})]

\* a reader that takes what the carry buffer holds at the end as a last line
ReaderCloseFlushes ==
    /\ reader.pc = "read"
    /\ reader.wire = <<>>
    /\ reader' = [reader EXCEPT !.pc = "done",
                                !.yielded = @ \o FramesOf(<<reader.buffer>>),
                                !.buffer = <<>>]

\* reader.read() resolves with done: the loop breaks
ReaderClose ==
    /\ reader.pc = "read"
    /\ reader.wire = <<>>
    /\ reader' = [reader EXCEPT !.pc = "done"]

\* the step touches nothing of the chat
ChatIdle ==
    UNCHANGED <<messages, hasMore, mounted, isSending, pending, sends, meta,
                nReads, nRates, log, feedback, clicks, audit, auth, session>>

NextReader ==
    \/ \E k \in 1..Len(reader.wire) : ReaderRead(k) /\ ChatIdle
    \/ ReaderClose /\ ChatIdle

SpecReader == InitReader /\ [][NextReader]_vars

\* ------------------------------------------------------------ claims
Streaming == {i \in DOMAIN messages : messages[i].isStreaming}

\* the step is the first part of handleSend accepting a submit as exchange h
Accepts(h) == sends[h].pc = "idle" /\ sends'[h].pc = "fetch"

\* the step is the one in which the run of handleSend for exchange h returns
Finishes(h) == sends[h].pc # "done" /\ sends'[h].pc = "done"

InFlight(h) == sends[h].pc \in {"fetch", "read"}

\* the places of exchange h's assistant placeholder in the list
PlaceholderAt(h) == {i \in DOMAIN messages : meta[i].key = PlaceholderKey(h)}

\* message i is an assistant message made by a submit that no longer streams
Finalized(i) ==
    meta[i].key > 0 /\ messages[i].role = "assistant" /\ ~messages[i].isStreaming

\* C1: in every reachable state at most one message of the list has
\* isStreaming = true.
C1_AtMostOneStreaming == Cardinality(Streaming) <= 1

\* C2: when the run of handleSend of an exchange that failed (an error event,
\* or an exception from opening or reading the stream) returns, the
\* exchange's placeholder is in the list, does not stream and has text, and
\* no message of the list streams.
C2_FailedTurnLeavesNothingStreaming ==
    [][\A h \in SendIds :
          Finishes(h) /\ sends'[h].failed =>
             /\ \E i \in DOMAIN messages' :
                   /\ meta'[i].key = PlaceholderKey(h)
                   /\ ~messages'[i].isStreaming
                   /\ messages'[i].content # <<>>
             /\ \A i \in DOMAIN messages' : ~messages'[i].isStreaming]_vars

\* C3: once the run of handleSend of an exchange has returned, however its
\* stream ended, the exchange's placeholder no longer streams, and the
\* in-flight flag of the instance that ran it is cleared as it returns.
C3_EndedTurnIsClosed ==
    /\ [](\A h \in SendIds : sends[h].pc = "done" =>
             \A i \in PlaceholderAt(h) : ~messages[i].isStreaming)
    /\ [][\A h \in SendIds : Finishes(h) /\ sends[h].live => ~isSending']_vars

\* C4: a message that left the streaming state never streams again, and a
\* read that delivers only token and done events changes neither the content
\* nor the id of a message that was already finalized.
C4_FinalizedIsFrozen ==
    [][\A i \in DOMAIN messages :
          Finalized(i) /\ nReads' # nReads /\ (\A h \in SendIds : ~sends'[h].failed) =>
             /\ messages'[i].content = messages[i].content
             /\ messages'[i].id = messages[i].id
             /\ ~messages'[i].isStreaming]_vars

\* C5: the content of an assistant placeholder to which only token events
\* were delivered while it streamed is the concatenation of their contents in
\* the order of delivery.
C5_ContentIsConcatenation ==
    \A i \in DOMAIN messages :
        meta[i].key > 0 /\ messages[i].role = "assistant" /\ ~meta[i].other =>
            messages[i].content = Flatten(meta[i].toks)

C5_Witness ==
    \E i \in DOMAIN messages :
        /\ meta[i].key > 0
        /\ ~meta[i].other
        /\ ~messages[i].isStreaming
        /\ Len(meta[i].toks) = 2
        /\ meta[i].toks[1] # meta[i].toks[2]
        /\ messages[i].content = <<"x", "y">>

\* C6: no submit is accepted (none opens a stream) while the run of handleSend
\* of another submit is still in flight, and none with blank text.
C6_NoSubmitWhileInFlight ==
    [][\A h \in SendIds :
          Accepts(h) =>
             /\ \A g \in SendIds \ {h} : ~InFlight(g)
             /\ messages'[Len(messages') - 1].content # <<>>]_vars

\* C7: an accepted submit appends to the list, in one step, the user message
\* with the trimmed text and then an empty streaming assistant placeholder,
\* and in every reachable state the user message of a submit is directly
\* followed by the placeholder of the same submit.
C7_SubmitAppendsPairAtomically ==
    /\ [](\A i \in DOMAIN messages : \A h \in SendIds :
             meta[i].key = UserKey(h) =>
                i < Len(messages) /\ meta[i + 1].key = PlaceholderKey(h))
    /\ [][\A h \in SendIds :
             Accepts(h) =>
                \E text \in {Trim(t) : t \in Inputs} \ {<<>>} :
                   messages' = messages \o
                      <<[id |-> Undefined, role |-> "user", content |-> text,
                         rating |-> NoRating, isStreaming |-> FALSE],
                        [id |-> Undefined, role |-> "assistant", content |-> <<>>,
                         rating |-> NoRating, isStreaming |-> TRUE]>>]_vars

C7_Witness ==
    /\ Len(messages) = 4
    /\ sends[2].pc = "fetch"
    /\ messages[3].role = "user"
    /\ messages[3].content = <<"h">>
    /\ messages[4].isStreaming

\* C8: the id of a message made by a submit is set only as the message leaves
\* the streaming state, at most once and never changed later, and only by the
\* run of handleSend of the submit that made the message.
C8_IdSetOnceByOwnStream ==
    /\ [](\A i \in DOMAIN messages :
             meta[i].key > 0 /\ meta[i].by # 0 => meta[i].key = PlaceholderKey(meta[i].by))
    /\ [][\A i \in DOMAIN messages : \A j \in DOMAIN messages' :
             meta[i].key > 0 /\ meta'[j].key = meta[i].key /\ messages'[j].id # messages[i].id =>
                /\ messages[i].id = Undefined
                /\ messages[i].isStreaming
                /\ ~messages'[j].isStreaming]_vars

\* C9: the events the loop of handleSend has run on are the events apiStream
\* has yielded for the exchange: the same events, each once, in the same order.
C9_AppliedAsYielded == log.applied = log.yielded

C9_Witness ==
    /\ Len(log.applied) = 3
    /\ log.applied[1].type = "done"
    /\ log.applied[2].type = "token"
    /\ log.applied[3].type = "error"

\* the lines of the received text that a newline has ended
CompleteLines(text) == LET parts == Split(text) IN SubSeq(parts, 1, Len(parts) - 1)
IsCandidate(line) == StartsWith(line, Marker)
IsFrame(line) == IsCandidate(line) /\ JSONValid(Slice(line, 6))

\* C10: the events yielded are the parsed payloads of the complete lines
\* received that start with the marker and hold valid JSON, in the order of
\* the lines: a marked line with invalid JSON yields nothing and the frames
\* after it are yielded all the same.
C10_MalformedLineSkipped ==
    LET frames == SelectSeq(CompleteLines(reader.rx), IsFrame)
    IN  reader.yielded = [i \in 1..Len(frames) |-> JSONParse(Slice(frames[i], 6))]

C10_Witness ==
    LET lines == CompleteLines(reader.rx)
    IN  /\ reader.pc = "done"
        /\ Len(lines) = 3
        /\ IsFrame(lines[1])
        /\ IsCandidate(lines[2]) /\ ~IsFrame(lines[2])
        /\ IsFrame(lines[3])
        /\ Len(reader.yielded) = 2
        /\ reader.yielded[2].type = "done"

\* C11: once apiStream has yielded a done or an error event it yields no
\* further event: no event follows a done or error event in what it yielded.
C11_NothingAfterDoneOrError ==
    \A i \in DOMAIN reader.yielded : \A j \in DOMAIN reader.yielded :
        i < j => reader.yielded[i].type \notin {"done", "error"}

\* C12: however the text received so far was cut into chunks, what apiStream
\* has yielded is what it yields when the same text arrives as one chunk:
\* the parsed payloads of the newline-ended lines that start with the marker,
\* in order, the other lines ignored.
C12_ChunkingIsIrrelevant ==
    /\ reader.yielded = FramesOf(ReadLines(<<>>, reader.rx).lines)
    /\ Len(reader.yielded) <=
          Cardinality({i \in DOMAIN CompleteLines(reader.rx) :
                          IsCandidate(CompleteLines(reader.rx)[i])})

C12_Witness ==
    LET lines == CompleteLines(reader.rx)
    IN  /\ reader.pc = "done"
        /\ reader.cuts = {"marker", "payload"}
        /\ Len(lines) = 3
        /\ IsFrame(lines[1])
        /\ ~IsCandidate(lines[2])
        /\ IsFrame(lines[3])
        /\ Len(reader.yielded) = 2
        /\ reader.yielded[1].type = "token"
        /\ reader.yielded[2].type = "done"

\* the step is a call of handleRate
Rates == clicks'.calls # clicks.calls

\* C13: in every reachable state, rating a message twice with the same value
\* gives the list that rating it once gives, and rating it +1 and then -1
\* leaves every message of that id with rating -1; and a call of handleRate
\* with the value the message already has leaves the list as it is.
C13_RatingIdempotentLastWins ==
    /\ [](\A i \in DOMAIN messages : \A r \in {1, 0 - 1} :
             LET id == messages[i].id
                 once == updateRating(messages, id, r)
                 updown == updateRating(updateRating(messages, id, 1), id, 0 - 1)
             IN  /\ updateRating(once, id, r) = once
                 /\ updown[i].rating = 0 - 1
                 /\ updown = updateRating(messages, id, 0 - 1))
    /\ [][Rates =>
             LET c == clicks'.calls[Len(clicks'.calls)]
             IN  /\ \A i \in DOMAIN messages' :
                       messages'[i].id = c.id => messages'[i].rating = c.rating
                 /\ (\A i \in DOMAIN messages :
                        messages[i].id = c.id => messages[i].rating = c.rating)
                       => messages' = messages]_vars

\* the same value twice
C13_Witness ==
    /\ Len(clicks.calls) = 2
    /\ clicks.calls[1] = clicks.calls[2]
    /\ \E i \in DOMAIN messages :
          /\ messages[i].id = clicks.calls[2].id
          /\ messages[i].rating = clicks.calls[2].rating

\* C14: a call of handleRate sets the rating in the step that sends the
\* feedback request, whatever becomes of the request, and the step in which
\* a feedback request fails changes nothing in the list.
C14_RatingSurvivesFailedFeedback ==
    /\ [][Rates =>
             /\ Len(feedback') = Len(feedback) + 1
             /\ LET req == feedback'[Len(feedback')]
                 IN  \E i \in DOMAIN messages' :
                        messages'[i].id = req.id /\ messages'[i].rating = req.rating]_vars
    /\ [][Len(feedback') < Len(feedback) => messages' = messages]_vars

\* both feedback requests have failed and the message carries the last rating
C14_Witness ==
    /\ Len(clicks.calls) = 2
    /\ clicks.calls[1].rating = 1
    /\ clicks.calls[2].rating = 0 - 1
    /\ Len(clicks.failed) = 2
    /\ feedback = <<>>
    /\ \E i \in DOMAIN messages :
          messages[i].id = clicks.calls[2].id /\ messages[i].rating = 0 - 1

\* C15: no two messages of the list carry the same server id, whatever page
\* was prepended.
C15_NoTwoWithSameId ==
    \A i \in DOMAIN messages : \A j \in DOMAIN messages :
        i # j /\ Truthy(messages[i].id) => messages[i].id # messages[j].id

\* the step is a call of handleAudit, and a call that sends the request
AuditCalled == Len(audit'.texts) = Len(audit.texts) + 1
AuditIssued == audit'.accepted = audit.accepted + 1

RECURSIVE ExpectedResult(_)
ExpectedResult(events) ==
    IF events = <<>> THEN <<>>
    ELSE LET e == events[Len(events)]
             before == ExpectedResult(SubSeq(events, 1, Len(events) - 1))
         IN  CASE e.type = "token" -> before \o e.content
               [] e.type = "error" /\ e.content # <<>> -> e.content
               [] e.type = "error" -> AuditOshibka
               [] OTHER -> before

\* C17: while an accepted audit is in flight the result buffer is what its
\* events so far make of an empty buffer: tokens appended in order, done
\* without effect, error in place of the whole buffer.
C17_ResultFollowsEvents ==
    audit.pc \in {"fetch", "read"} => audit.result = ExpectedResult(audit.seen)

\* a token, then an error that replaces it, then a token added to the error
C17_Witness ==
    /\ audit.pc = "read"
    /\ Len(audit.seen) = 3
    /\ audit.seen[1].type = "token"
    /\ audit.seen[2].type = "error"
    /\ audit.seen[3].type = "token"
    /\ audit.result = <<"!", "y">>

\* the step sends a chat, history, feedback, audit or audit-history request
RequestIssued ==
    \/ pending' > pending
    \/ \E h \in SendIds : Accepts(h)
    \/ Len(feedback') > Len(feedback)
    \/ audit'.accepted > audit.accepted
    \/ audit'.pending /\ ~audit.pending

\* the gate is not loading, has no error and holds a user
Authenticated == ~auth.isLoading /\ auth.error = Null /\ auth.user # Null

\* C18: a request of a page is sent only in a state in which the gate is
\* Authenticated, and a page is mounted only in such a state.
C18_RequestsOnlyWhenAuthenticated ==
    /\ [][RequestIssued => Authenticated]_vars
    /\ [](mounted \/ audit.mounted => Authenticated)

\* the session was ended while a chat request was in flight, after an audit
C18_Witness ==
    /\ ~Authenticated
    /\ auth.token = Null
    /\ auth.pc = "idle"
    /\ sends[1].pc = "fetch"
    /\ audit.accepted = 1

\* C19: a login that ends with code ONBOARDING_REQUIRED leaves the gate on
\* the onboarding screen and the token as it was, and on that screen no page
\* is mounted and no request of a page is sent.
C19_OnboardingRequiredClosesGate ==
    /\ [][auth.pc = "login" /\ auth'.pc = "idle"
             /\ auth'.errorCode = "ONBOARDING_REQUIRED" =>
                /\ GateView(auth') = "onboarding"
                /\ auth'.token = auth.token]_vars
    /\ [](auth.errorCode = "ONBOARDING_REQUIRED" /\ ~auth.isLoading =>
             ~mounted /\ ~audit.mounted /\ ~Authenticated)
    /\ [][auth.errorCode = "ONBOARDING_REQUIRED" /\ ~auth.isLoading =>
             ~RequestIssued]_vars

C19_Witness ==
    /\ GateView(auth) = "onboarding"
    /\ auth.errorCode = "ONBOARDING_REQUIRED"
    /\ auth.error # Null
    /\ auth.token = Null
    /\ auth.pc = "idle"

\* C20: on the error screen and on the onboarding screen the retry action
\* can be taken, and taking it calls authenticate and shows the loading screen.
C20_RetryOnErrorAndOnboarding ==
    /\ [](GateView(auth) \in {"error", "onboarding"} /\ auth.pc = "idle" =>
             ENABLED (RetryLogin /\ GateOnly))
    /\ [][auth.pc = "idle" /\ auth'.pc = "login" =>
             GateView(auth') = "loading"]_vars

\* the step calls authenticate
Authenticates == session'.logins # session.logins

\* C21: the gate starts on the loading screen, its first step is the one call
\* of authenticate at start-up, every later call is made from the error screen
\* by the retry button with no login in flight, and the step that ends a
\* login calls none.
C21_LoginAtStartupThenOnRetry ==
    /\ [](auth.pc = "new" =>
             auth = NoSession /\ GateView(auth) = "loading" /\ session.logins = 0)
    /\ [][auth.pc = "new" /\ auth' # auth =>
             Authenticates /\ session'.logins = 1 /\ auth'.pc = "login"]_vars
    /\ [][auth'.pc = "new" => auth.pc = "new"]_vars
    /\ [][Authenticates /\ auth.pc # "new" =>
             auth.pc = "idle" /\ RetryShown(auth)]_vars
    /\ [][auth.pc = "login" /\ auth'.pc # auth.pc =>
             auth'.pc = "idle" /\ ~Authenticates]_vars

\* the call at start-up has ended and one made by the retry button is in flight
C21_Witness ==
    /\ session.logins = 2
    /\ auth.pc = "login"
    /\ auth.isLoading
    /\ auth.token = Null

\* C22: every request a page sends through apiFetch or apiStream is sent while
\* a token is held and has as its Authorization header the bearer of the token
\* held at that moment.
C22_RequestsCarryHeldToken ==
    [][RequestIssued =>
          /\ auth.token # Null
          /\ session'.bearer = <<"Bearer", auth.token>>]_vars

\* after a second login that gave token t2, a chat request went out with it
C22_Witness ==
    /\ session.logins = 2
    /\ auth.token = "t2"
    /\ session.bearer = <<"Bearer", "t2">>
    /\ sends[1].pc = "fetch"

\* C23: a token is held only after a call of authenticate; from the return
\* of logout until a login called after it succeeds, no token and no user
\* is held and no request of a page has an Authorization header.
C23_NoTokenAfterLogout ==
    /\ [](auth.token # Null => session.logins > 0)
    /\ [](session.out => auth.token = Null /\ auth.user = Null)
    /\ [][RequestIssued /\ session.out => session'.bearer = <<>>]_vars

\* the step ends a login with a failure
LoginFails == auth.pc = "login" /\ auth'.pc = "idle" /\ auth'.error # Null

\* C24: a login that fails leaves the token as it was and, unless its code
\* is ONBOARDING_REQUIRED, leaves the gate on the error screen with code
\* AUTH_FAILED.
C24_FailedLoginIsAuthFailed ==
    [][LoginFails =>
          /\ auth'.token = auth.token
          /\ auth'.user = auth.user
          /\ \/ auth'.errorCode = "ONBOARDING_REQUIRED"
             \/ auth'.errorCode = "AUTH_FAILED" /\ GateView(auth') = "error"]_vars

\* C25: with token t1 held, the submit of the text with nothing in flight
\* appends the user message and then the streaming placeholder and sets the
\* in-flight flag; once the body with the frames token, token, done(42) was
\* read, however it was cut into chunks, the last message is the assistant's,
\* has id 42, the two contents joined and streaming false, and the flag is
\* cleared.
C25_PrivetEndToEnd ==
    /\ [][sends[1].pc = "idle" /\ sends'[1].pc = "fetch" =>
             /\ auth.token = "t1"
             /\ isSending'
             /\ messages' = messages \o
                    <<[id |-> Undefined, role |-> "user", content |-> Privet,
                       rating |-> NoRating, isStreaming |-> FALSE],
                      [id |-> Undefined, role |-> "assistant", content |-> <<>>,
                       rating |-> NoRating, isStreaming |-> TRUE]>>]_vars
    /\ [](sends[1].pc = "done" =>
             /\ Last(messages) =
                    [id |-> 42, role |-> "assistant", content |-> Privet \o <<"!">>,
                     rating |-> NoRating, isStreaming |-> FALSE]
             /\ messages[Len(messages) - 1].content = Privet
             /\ ~isSending)

\* the body came in two chunks, after a history of two messages
C25_Witness ==
    /\ sends[1].pc = "done"
    /\ nReads = 2
    /\ Len(messages) = 4
    /\ Last(messages).id = 42

\* the loop body ran on one more event, an error event
ErrorApplied ==
    /\ Len(log'.applied) = Len(log.applied) + 1
    /\ log'.applied[Len(log'.applied)].type = "error"

\* the catch block ran
Caught == \E h \in SendIds : ~sends[h].failed /\ sends'[h].failed /\ sends'[h].pc = "done"

\* what the step appended to the last message, which it closed with the sentinel
ClosedWith(c) ==
    /\ Len(messages') = Len(messages)
    /\ \A i \in 1..(Len(messages) - 1) : messages'[i] = messages[i]
    /\ Last(messages') = [Last(messages) EXCEPT !.content = @ \o c, !.id = Sentinel,
                                                 !.isStreaming = FALSE]

\* C26: an error event, or an exception, met while the last message is the
\* streaming placeholder appends the content of the event, the fallback text
\* if it has none, and closes the placeholder with the sentinel id; a message
\* that has the sentinel id shows no feedback buttons, and no call of
\* handleRate or feedback request has the sentinel as its id or changes such
\* a message.
C26_ErrorClosesWithSentinel ==
    /\ [][ErrorApplied /\ messages # <<>> /\ Last(messages).role = "assistant"
                /\ Last(messages).isStreaming =>
             LET c == log'.applied[Len(log'.applied)].content
             IN  ClosedWith(IF c # <<>> THEN c ELSE Oshibka)]_vars
    /\ [][Caught /\ messages # <<>> /\ Last(messages).role = "assistant"
                /\ Last(messages).isStreaming => ClosedWith(Fallback)]_vars
    /\ [](\A i \in DOMAIN messages : messages[i].id = Sentinel => ~Rateable(messages[i]))
    /\ [](\A k \in DOMAIN feedback : feedback[k].id # Sentinel)
    /\ [][nRates' # nRates =>
             \A i \in DOMAIN messages :
                messages[i].id = Sentinel => messages'[i] = messages[i]]_vars

\* an error event with content closed the placeholder after a token, and a
\* click on a feedback button was taken nowhere
C26_Witness ==
    /\ Len(messages) = 2
    /\ messages[2] = [id |-> Sentinel, role |-> "assistant", content |-> <<"x", "!">>,
                       rating |-> NoRating, isStreaming |-> FALSE]
    /\ sends[1].pc = "done"
    /\ nRates = 0
    /\ mounted
    /\ \A i \in DOMAIN messages, rating \in {1, 0 - 1} : ~ENABLED HandleRate(i, rating)

\* the last message is the assistant's and streaming
LastIsStreaming ==
    messages # <<>> /\ Last(messages).role = "assistant" /\ Last(messages).isStreaming

\* msgs has the length of the list held and its messages but the last
SameButLast(msgs) ==
    /\ Len(msgs) = Len(messages)
    /\ \A i \in 1..(Len(messages) - 1) : msgs[i] = messages[i]

\* C27: on any list the store comes to hold, appendToLast returns the list
\* as it is when it is empty or ends with a message of the user,
\* finishStreaming returns it as it is unless it ends with a streaming
\* message of the assistant, and both keep the length and every message but
\* the last.
C27_OnlyTheLastMessage ==
    \A content \in StoreContents, messageId \in StoreIds :
        /\ messages = <<>> \/ Last(messages).role = "user" =>
               appendToLast(messages, content) = messages
        /\ ~LastIsStreaming => finishStreaming(messages, messageId) = messages
        /\ SameButLast(appendToLast(messages, content))
        /\ SameButLast(finishStreaming(messages, messageId))

\* a closed reply, a question after it: the list ends with a message of the user
C27_Witness ==
    /\ Len(messages) = 3
    /\ messages[1].role = "user"
    /\ messages[2] = [id |-> 1, role |-> "assistant", content |-> <<"x", "x">>,
                       rating |-> NoRating, isStreaming |-> FALSE]
    /\ messages[3].role = "user"

\* C28: on any list the store comes to hold, updateRating returns a list of
\* the same length in which each message that has the id has the rating and
\* is otherwise as it was, and every other message is as it was; when no
\* message has the id the list is returned as it is.
C28_OnlyTheRatingOfTheId ==
    \A messageId \in StoreIds, rating \in {1, 0 - 1} :
        LET msgs == updateRating(messages, messageId, rating)
        IN  /\ Len(msgs) = Len(messages)
            /\ \A i \in DOMAIN messages :
                   msgs[i] = IF messages[i].id = messageId
                             THEN [messages[i] EXCEPT !.rating = rating]
                             ELSE messages[i]
            /\ (\A i \in DOMAIN messages : messages[i].id # messageId) =>
                   msgs = messages

\* two closed replies with the same id were rated at once, a third was not
C28_Witness ==
    /\ Len(messages) = 3
    /\ messages[1].id = 1 /\ messages[1].rating = 1
    /\ messages[2].id = 2 /\ messages[2].rating = NoRating
    /\ messages[3].id = 1 /\ messages[3].rating = 1

\* msgs is in the order the server persisted its messages in
Chronological(msgs) ==
    \A i, j \in DOMAIN msgs : i < j => msgs[i].id < msgs[j].id

\* the step puts an older page into the list
Prepends == messages # <<>> /\ Len(messages') > Len(messages)

\* C29: a step that puts an older page into the list leaves the page, in its
\* order, at the front and the messages held before, unchanged, after it; if
\* the page and the messages held are each in persisted order and the last
\* of the page is older than the first held, the whole list is in that order.
C29_OlderPageGoesFirst ==
    [][Prepends =>
          LET n == Len(messages') - Len(messages)
              page == SubSeq(messages', 1, n)
          IN  /\ page \in OlderPages
              /\ SubSeq(messages', n + 1, Len(messages')) = messages
              /\ Chronological(page) /\ Chronological(messages)
                    /\ page[n].id < messages[1].id => Chronological(messages')]_vars

\* the page before the first was put before it, after a reply was rated
C29_Witness ==
    /\ Len(messages) = 4
    /\ Chronological(messages)
    /\ messages[1].id = 6
    /\ messages[4].id = 9
    /\ messages[4].rating = 1

\* the streams whose body is being read
Consumed == {h \in SendIds : sends[h].pc = "read"}

\* C30: at most one stream is being read at a time, and the read of a chunk
\* of the only stream being read changes, of the messages made by submits,
\* none but the placeholder of the submit that opened the stream.
C30_OneStreamOwnPlaceholder ==
    /\ [](Cardinality(Consumed) <= 1)
    /\ [][nReads' # nReads =>
             \A h \in SendIds :
                Consumed = {h} =>
                   \A i \in DOMAIN messages :
                      meta[i].key > 0 /\ messages'[i] # messages[i] =>
                         meta[i].key = PlaceholderKey(h)]_vars

\* the places in the list of the messages the submit of exchange h appended
MadeBy(h) == {i \in DOMAIN messages : meta[i].key \in {UserKey(h), PlaceholderKey(h)}}

\* C31: once a submit was accepted its user message and its placeholder are
\* in the list, whatever history reply arrives afterwards, and the read of a
\* chunk changes no message that came from the history.
C31_HistoryKeepsSubmitted ==
    /\ [](\A h \in SendIds : sends[h].pc # "idle" => Cardinality(MadeBy(h)) = 2)
    /\ [][nReads' # nReads =>
             \A i \in DOMAIN messages :
                meta[i].key < 0 => messages'[i] = messages[i]]_vars

\* C32: an Audit page that is auditing comes to a state in which it is not;
\* the step in which a run of handleAudit returns leaves isAuditing false;
\* and a run that ended in its catch block leaves the fallback text, and
\* nothing else, as the result until the next run.
C32_AuditEndsTerminal ==
    /\ audit.isAuditing ~> ~audit.isAuditing
    /\ [][audit.pc \in {"fetch", "read"} /\ audit'.pc = "idle" =>
             ~audit'.isAuditing]_vars
    /\ [](audit.pc = "idle" => ~audit.isAuditing)
    /\ [](audit.threw => audit.result = Fallback /\ ~audit.isAuditing)

\* the read failed after a token had been added to the result
C32_Witness ==
    /\ audit.mounted
    /\ audit.threw
    /\ audit.result = Fallback
    /\ Len(audit.seen) = 1
    /\ audit.seen[1].type = "token"
    /\ audit.seen[1].content # <<>>
    /\ ~audit.isAuditing

\* C33: when no call of authenticate is in flight and the one that settled
\* last, with no logout since, succeeded, the gate is Authenticated and no
\* error code is set.
C33_LastSuccessAuthenticates ==
    [](session.last = "ok" /\ auth.pc = "idle" =>
          Authenticated /\ auth.errorCode = Null)

\* one call of authenticate fewer is in flight
SettlesOne ==
    \/ auth.pc = "login" /\ auth'.pc = "idle"
    \/ auth'.more < auth.more

C35_GateLeavesLoading ==
    /\ auth.isLoading ~> ~auth.isLoading
    /\ [][SettlesOne =>
             /\ ~auth'.isLoading
             /\ GateView(auth') \in {"children", "onboarding", "error"}
             /\ auth'.errorCode = "ONBOARDING_REQUIRED" => GateView(auth') = "onboarding"
             /\ auth'.errorCode # "ONBOARDING_REQUIRED"
                   /\ (auth'.error # Null \/ auth'.user = Null) => GateView(auth') = "error"
             /\ GateView(auth') = "children" <=>
                   (~auth'.isLoading /\ auth'.error = Null /\ auth'.user # Null
                      /\ auth'.errorCode # "ONBOARDING_REQUIRED")]_vars

\* a user is held and an error is set: the error screen is shown
C35_Witness ==
    /\ auth.pc = "idle"
    /\ auth.user # Null
    /\ auth.error # Null
    /\ GateView(auth) = "error"
    /\ session.last = "ok"

\* C36: the step in which the body ends yields nothing, and once it has
\* ended the carry buffer holds the text after the last newline and the
\* events yielded are as many as the frames among the lines a newline
\* ended: the text left over gave no event, frame or not.
C36_UnterminatedLineYieldsNothing ==
    /\ [][reader.pc = "read" /\ reader'.pc = "done" =>
             reader'.yielded = reader.yielded /\ reader'.buffer = reader.buffer]_vars
    /\ [](reader.pc = "done" =>
             LET parts == Split(reader.rx)
             IN  /\ reader.buffer = parts[Len(parts)]
                 /\ Len(reader.yielded) =
                       Cardinality({i \in 1..(Len(parts) - 1) : IsFrame(parts[i])}))

\* the body ended after a terminated frame and a whole frame with no newline
C36_Witness ==
    /\ reader.pc = "done"
    /\ IsFrame(reader.buffer)
    /\ JSONParse(Slice(reader.buffer, 6)).type = "token"
    /\ Len(reader.yielded) = 1
    /\ Len(CompleteLines(reader.rx)) = 1

=============================================================================
